---- MODULE Spec2Model ----
(***************************************************************************)
(* A model of the console file explorer of src/main.cpp: the menu loop of  *)
(* main() and the operations listFiles, createFile, deleteFile,            *)
(* changeDirectory and searchFile, over a small POSIX filesystem.          *)
(*                                                                         *)
(* Names are sequences of bytes (0..255) so that sorting and comparing     *)
(* them is done as std::string does it.  A path is a record                *)
(* [abs, comps]: whether it starts with '/', and its components.           *)
(***************************************************************************)
EXTENDS Integers, Sequences, FiniteSets, TLC

(***************************************************************************)
(* Bounds of the model.                                                    *)
(***************************************************************************)
\* at most this many successful createFile / deleteFile calls in one run
MaxMutations == 2
\* symbolic links followed in one path resolution before ELOOP
MaxLinkDepth == 2

(***************************************************************************)
(* Program constants.                                                      *)
(***************************************************************************)
\* char cwd[512] / char buf[512]
CwdBufSize == 512

(***************************************************************************)
(* Names (byte strings).                                                   *)
(***************************************************************************)
Dot == <<46>>
DotDot == <<46, 46>>
N_a == <<97>>
N_A == <<65>>
N_s == <<115>>
N_t == <<116>>
N_l == <<108>>
\* a two-byte UTF-8 name, both bytes above 127
N_e == <<195, 169>>

RWX == {"r", "w", "x"}

(***************************************************************************)
(* Paths.                                                                  *)
(***************************************************************************)
Rel(comps) == [abs |-> FALSE, comps |-> comps]
Abs(comps) == [abs |-> TRUE, comps |-> comps]
\* the empty string
EmptyPath == Rel(<<>>)

(***************************************************************************)
(* The directories of the filesystem.  The program never creates a         *)
(* directory, so the set is fixed; a directory can only be unlinked.       *)
(*     /        0                                                          *)
(*     /s       1                                                          *)
(*     /s/t     2   (its permission bits are chosen in Init)               *)
(***************************************************************************)
Dirs == {0, 1, 2}
DirParent == (0 :> 0) @@ (1 :> 0) @@ (2 :> 1)
DirName == (0 :> <<>>) @@ (1 :> N_s) @@ (2 :> N_t)
Root == CHOOSE d \in Dirs : DirParent[d] = d
DirT == CHOOSE d \in Dirs : DirName[d] = N_t

\* the non-directory entries the filesystem starts with
InitFiles ==
    { [dir |-> 0, name |-> N_a, kind |-> "reg", size |-> 1],
      [dir |-> 0, name |-> N_l, kind |-> "lnk", size |-> 2],
      [dir |-> 1, name |-> N_e, kind |-> "reg", size |-> 1],
      [dir |-> 2, name |-> N_a, kind |-> "reg", size |-> 1] }


\* where the symbolic link /l points
LinkTarget == Abs(<<N_s>>)

\* the permission bits /s/t may have
PModes == { {}, {"r"}, {"r", "x"}, {"w", "x"}, RWX }

\* what the user may type as a file name or path (one whitespace-delimited
\* token): "", a, A, t, .., l/t, /s, /l, /s/t, /s/t/a
Tokens ==
    { EmptyPath,
      Rel(<<N_a>>), Rel(<<N_A>>), Rel(<<N_t>>), Rel(<<DotDot>>), Rel(<<N_l, N_t>>),
      Abs(<<N_s>>), Abs(<<N_l>>), Abs(<<N_s, N_t>>), Abs(<<N_s, N_t, N_a>>) }

\* what the user may type as the name to search for
Targets == { Rel(<<N_a>>), Rel(<<N_A>>), Rel(<<N_t>>) }

VARIABLES
    files,      \* the non-directory entries: records [dir, name, kind, size]
    linked,     \* the directories that are still linked into the tree
    mode,       \* permission bits of each directory
    dtypeOK,    \* whether readdir fills in d_type (else DT_UNKNOWN)
    cwd,        \* the process's working directory (a directory id)
    cwdBuf,     \* main's char cwd[512]: the path read at the top of the loop
    pc,         \* where the program is
    eof,        \* standard input is exhausted
    handles,    \* the open DIR* / FILE* handles, in the order opened
    stack,      \* searchFile's activation records
    out,        \* lines written to cout by the current operation
    err,        \* lines written to cerr by the current operation
    last,       \* what the current operation was asked and what it observed
    made,       \* the <<dir, name>> created by createFile and not removed since
    nmut,       \* how many createFile / deleteFile calls have succeeded
    status      \* <<the exit status>> once main has returned, <<>> before

vars == <<files, linked, mode, dtypeOK, cwd, cwdBuf, pc, eof, handles, stack,
          out, err, last, made, nmut, status>>

(***************************************************************************)
(* The operating system: directory lookup, path resolution, getcwd.        *)
(***************************************************************************)
\* the linked subdirectories of directory d
SubDirs(d) == { c \in linked : c # Root /\ DirParent[c] = d }

\* the non-directory entries of directory d
FilesIn(d) == { f \in files : f.dir = d }

\* a directory with no entry but . and ..
IsEmptyDir(d) == SubDirs(d) = {} /\ FilesIn(d) = {}

\* one component looked up in directory d: kind "dir" with the directory
\* found, kind "reg" or "lnk" for another entry of d, kind "none" when d has
\* no such entry
Lookup(d, c) ==
    IF c = Dot THEN [kind |-> "dir", dir |-> d]
    ELSE IF c = DotDot THEN [kind |-> "dir", dir |-> DirParent[d]]
    ELSE IF \E k \in SubDirs(d) : DirName[k] = c
         THEN [kind |-> "dir", dir |-> CHOOSE k \in SubDirs(d) : DirName[k] = c]
    ELSE IF \E f \in FilesIn(d) : f.name = c
         THEN [kind |-> (CHOOSE f \in FilesIn(d) : f.name = c).kind, dir |-> d]
    ELSE [kind |-> "none", dir |-> d]

WalkFail(e) == [err |-> e, kind |-> "none", dir |-> Root, name |-> <<>>]

\* Resolve comps starting in directory cur.  follow: whether a symbolic link
\* in the last component is followed.  The answer names the entry found:
\* kind "dir" with dir the directory itself, or kind "reg"/"lnk"/"none" with
\* dir the parent directory; name is the last component walked.
RECURSIVE Walk(_, _, _, _, _)
Walk(cur, comps, follow, depth, lastc) ==
    IF comps = <<>>
    THEN [err |-> "OK", kind |-> "dir", dir |-> cur, name |-> lastc]
    ELSE IF "x" \notin mode[cur] THEN WalkFail("EACCES")
    ELSE LET c == Head(comps)
             rest == Tail(comps)
             e == Lookup(cur, c)
         IN  CASE e.kind = "dir" -> Walk(e.dir, rest, follow, depth, c)
               [] e.kind = "none" ->
                    IF rest = <<>>
                    THEN [err |-> "ENOENT", kind |-> "none", dir |-> cur, name |-> c]
                    ELSE WalkFail("ENOENT")
               [] e.kind = "reg" ->
                    IF rest = <<>>
                    THEN [err |-> "OK", kind |-> "reg", dir |-> cur, name |-> c]
                    ELSE WalkFail("ENOTDIR")
               [] e.kind = "lnk" ->
                    IF rest = <<>> /\ ~follow
                    THEN [err |-> "OK", kind |-> "lnk", dir |-> cur, name |-> c]
                    ELSE IF depth = 0 THEN WalkFail("ELOOP")
                    ELSE Walk(IF LinkTarget.abs THEN Root ELSE cur,
                              LinkTarget.comps \o rest, follow, depth - 1, c)

\* path resolution as the system calls do it, relative to the working directory
Resolve(path, follow) ==
    IF ~path.abs /\ path.comps = <<>> THEN WalkFail("ENOENT")
    ELSE Walk(IF path.abs THEN Root ELSE cwd, path.comps, follow, MaxLinkDepth, <<>>)

\* the absolute path of directory d
RECURSIVE PathOf(_)
PathOf(d) ==
    IF d = Root THEN Abs(<<>>)
    ELSE Abs(Append(PathOf(DirParent[d]).comps, DirName[d]))


\* strlen of a path as text: "/" or "/c1/c2", relative paths without the first '/'
RECURSIVE CompsLen(_)
CompsLen(comps) ==
    IF comps = <<>> THEN 0 ELSE 1 + Len(Head(comps)) + CompsLen(Tail(comps))
StrLen(path) ==
    IF path.comps = <<>> THEN (IF path.abs THEN 1 ELSE 0)
    ELSE CompsLen(path.comps) - (IF path.abs THEN 0 ELSE 1)

\* getcwd(buf, size) for working directory d: the path, or a failure
\* (ENOENT when d was removed, ERANGE when the path and its NUL do not fit)
GetCwdOK(d, size) == d \in linked /\ StrLen(PathOf(d)) + 1 <= size

\* opendir(path): the directory opened, or a failure
opendir(path) ==
    LET r == Resolve(path, TRUE)
    IN  IF r.err # "OK" THEN [errno |-> r.err, dir |-> Root]
        ELSE IF r.kind # "dir" THEN [errno |-> "ENOTDIR", dir |-> Root]
        ELSE IF "r" \notin mode[r.dir] THEN [errno |-> "EACCES", dir |-> Root]
        ELSE [errno |-> "OK", dir |-> r.dir]

\* the d_type readdir reports for an entry of the given kind
DType(kind) ==
    IF ~dtypeOK THEN "DT_UNKNOWN"
    ELSE CASE kind = "dir" -> "DT_DIR"
           [] kind = "reg" -> "DT_REG"
           [] kind = "lnk" -> "DT_LNK"

\* everything readdir yields for directory d, "." and ".." included
readdir(d) ==
    { [d_name |-> Dot, d_type |-> DType("dir")],
      [d_name |-> DotDot, d_type |-> DType("dir")] }
    \cup { [d_name |-> DirName[k], d_type |-> DType("dir")] : k \in SubDirs(d) }
    \cup { [d_name |-> f.name, d_type |-> DType(f.kind)] : f \in FilesIn(d) }

\* the entries readdir may yield next when rem are still to come: "." and
\* ".." come first, the others in any order
NextEntries(rem) ==
    IF \E e \in rem : e.d_name = Dot THEN { e \in rem : e.d_name = Dot }
    ELSE IF \E e \in rem : e.d_name = DotDot THEN { e \in rem : e.d_name = DotDot }
    ELSE rem

\* the orders in which a set can be enumerated
RECURSIVE Perms(_)
Perms(S) ==
    IF S = {} THEN { <<>> }
    ELSE UNION { { <<x>> \o q : q \in Perms(S \ {x}) } : x \in S }

\* the orders readdir may yield the entries of d in: any order of the real
\* entries, with "." and ".." before or after them
ReaddirOrders(d) ==
    LET dots == << [d_name |-> Dot, d_type |-> DType("dir")],
                   [d_name |-> DotDot, d_type |-> DType("dir")] >>
        real == { e \in readdir(d) : e.d_name \notin {Dot, DotDot} }
    IN  UNION { { dots \o q, q \o dots } : q \in Perms(real) }

\* fopen(name, "a"): an existing file is opened as it is
fopen_a(path) ==
    LET r == Resolve(path, FALSE)
    IN  IF r.err = "OK"
        THEN IF r.kind = "dir" THEN [errno |-> "EISDIR", files |-> files, at |-> r]
             ELSE [errno |-> "OK", files |-> files, at |-> r]
        ELSE IF r.err = "ENOENT" /\ r.name # <<>>
        THEN IF r.dir \notin linked THEN [errno |-> "ENOENT", files |-> files, at |-> r]
             ELSE IF "w" \notin mode[r.dir] THEN [errno |-> "EACCES", files |-> files, at |-> r]
             ELSE [errno |-> "OK", at |-> r,
                   files |-> files \cup { [dir |-> r.dir, name |-> r.name,
                                           kind |-> "reg", size |-> 0] }]
        ELSE [errno |-> r.err, files |-> files, at |-> r]

\* fopen(name, "w"): an existing file is truncated
fopen_w(path) ==
    LET r == Resolve(path, FALSE)
    IN  IF r.err = "OK"
        THEN IF r.kind # "reg" THEN [errno |-> "EISDIR", files |-> files, at |-> r]
             ELSE [errno |-> "OK", at |-> r,
                   files |-> { IF f.dir = r.dir /\ f.name = r.name
                               THEN [f EXCEPT !.size = 0] ELSE f : f \in files }]
        ELSE IF r.err = "ENOENT" /\ r.name # <<>>
        THEN IF r.dir \notin linked THEN [errno |-> "ENOENT", files |-> files, at |-> r]
             ELSE IF "w" \notin mode[r.dir] THEN [errno |-> "EACCES", files |-> files, at |-> r]
             ELSE [errno |-> "OK", at |-> r,
                   files |-> files \cup { [dir |-> r.dir, name |-> r.name,
                                           kind |-> "reg", size |-> 0] }]
        ELSE [errno |-> r.err, files |-> files, at |-> r]

\* fopen(name, "wx") = open(O_WRONLY | O_CREAT | O_TRUNC | O_EXCL)
fopen_wx(path) ==
    LET r == Resolve(path, FALSE)
    IN  IF r.err = "OK" THEN [errno |-> "EEXIST", files |-> files, at |-> r]
        ELSE IF r.err = "ENOENT" /\ r.name # <<>>
        THEN IF r.dir \notin linked THEN [errno |-> "ENOENT", files |-> files, at |-> r]
             ELSE IF "w" \notin mode[r.dir] THEN [errno |-> "EACCES", files |-> files, at |-> r]
             ELSE [errno |-> "OK", at |-> r,
                   files |-> files \cup { [dir |-> r.dir, name |-> r.name,
                                           kind |-> "reg", size |-> 0] }]
        ELSE [errno |-> r.err, files |-> files, at |-> r]

\* remove() with its result read the wrong way round: a failure is taken
\* for a success
remove_inverted(path) ==
    LET r == Resolve(path, FALSE)
        same == [files |-> files, linked |-> linked, at |-> r]
    IN  IF r.err # "OK" THEN [errno |-> r.err] @@ same
        ELSE IF r.kind \in {"reg", "lnk"}
        THEN IF "w" \notin mode[r.dir] THEN [errno |-> "OK"] @@ same
             ELSE [errno |-> "EIO", linked |-> linked, at |-> r,
                   files |-> { f \in files : ~(f.dir = r.dir /\ f.name = r.name) }]
        ELSE [errno |-> "EISDIR"] @@ same

\* a removal that takes a directory with everything in it
remove_recursive(path) ==
    LET r == Resolve(path, FALSE)
        same == [files |-> files, linked |-> linked, at |-> r]
    IN  IF r.err # "OK" THEN [errno |-> r.err] @@ same
        ELSE IF r.kind \in {"reg", "lnk"}
        THEN IF "w" \notin mode[r.dir] THEN [errno |-> "EACCES"] @@ same
             ELSE [errno |-> "OK", linked |-> linked, at |-> r,
                   files |-> { f \in files : ~(f.dir = r.dir /\ f.name = r.name) }]
        ELSE IF r.name \in {Dot, DotDot} \/ r.dir = Root \/ r.dir \notin linked
        THEN [errno |-> "EINVAL"] @@ same
        ELSE [errno |-> "OK", at |-> r,
              files |-> { f \in files : f.dir # r.dir /\ DirParent[f.dir] # r.dir },
              linked |-> { k \in linked : k # r.dir /\ (k = Root \/ DirParent[k] # r.dir) }]

\* remove(name): unlink(), and rmdir() when the name is a directory
remove(path) ==
    LET r == Resolve(path, FALSE)
        same == [files |-> files, linked |-> linked, at |-> r]
    IN  IF r.err # "OK" THEN [errno |-> r.err] @@ same
        ELSE IF r.kind \in {"reg", "lnk"}
        THEN IF "w" \notin mode[r.dir] THEN [errno |-> "EACCES"] @@ same
             ELSE [errno |-> "OK", linked |-> linked, at |-> r,
                   files |-> { f \in files : ~(f.dir = r.dir /\ f.name = r.name) }]
        ELSE IF r.name = Dot THEN [errno |-> "EINVAL"] @@ same
        ELSE IF r.name = DotDot THEN [errno |-> "ENOTEMPTY"] @@ same
        ELSE IF r.dir = Root THEN [errno |-> "EBUSY"] @@ same
        ELSE IF r.dir \notin linked THEN [errno |-> "ENOENT"] @@ same
        ELSE IF ~IsEmptyDir(r.dir) THEN [errno |-> "ENOTEMPTY"] @@ same
        ELSE IF "w" \notin mode[DirParent[r.dir]] THEN [errno |-> "EACCES"] @@ same
        ELSE [errno |-> "OK", files |-> files, linked |-> linked \ {r.dir}, at |-> r]

\* chdir without the search-permission check on the directory entered
chdir_noperm(path) ==
    LET r == Resolve(path, TRUE)
    IN  IF r.err # "OK" THEN [errno |-> r.err, cwd |-> cwd]
        ELSE IF r.kind # "dir" THEN [errno |-> "ENOTDIR", cwd |-> cwd]
        ELSE [errno |-> "OK", cwd |-> r.dir]

\* chdir(path)
chdir(path) ==
    LET r == Resolve(path, TRUE)
    IN  IF r.err # "OK" THEN [errno |-> r.err, cwd |-> cwd]
        ELSE IF r.kind # "dir" THEN [errno |-> "ENOTDIR", cwd |-> cwd]
        ELSE IF "x" \notin mode[r.dir] THEN [errno |-> "EACCES", cwd |-> cwd]
        ELSE [errno |-> "OK", cwd |-> r.dir]

\* what a char[512] holds after getcwd() for directory d: the path, or, when
\* getcwd failed, whatever the array held (old contents or anything else)
GetCwdInto(d, old) ==
    IF GetCwdOK(d, CwdBufSize) THEN { PathOf(d) } ELSE { old, EmptyPath }

(***************************************************************************)
(* std::string comparison and std::sort.                                   *)
(***************************************************************************)
\* the comparison done on plain (signed) char
RECURSIVE StrLessSigned(_, _)
StrLessSigned(a, b) ==
    LET sc(v) == IF v >= 128 THEN v - 256 ELSE v
    IN  IF b = <<>> THEN FALSE
        ELSE IF a = <<>> THEN TRUE
        ELSE IF Head(a) # Head(b) THEN sc(Head(a)) < sc(Head(b))
        ELSE StrLessSigned(Tail(a), Tail(b))

\* operator< on std::string: lexicographic on the bytes as unsigned char
RECURSIVE StrLess(_, _)
StrLess(a, b) ==
    IF b = <<>> THEN FALSE
    ELSE IF a = <<>> THEN TRUE
    ELSE IF Head(a) # Head(b) THEN Head(a) < Head(b)
    ELSE StrLess(Tail(a), Tail(b))

RECURSIVE InsertSorted(_, _)
InsertSorted(x, seq) ==
    IF seq = <<>> THEN <<x>>
    ELSE IF StrLess(x, Head(seq)) THEN <<x>> \o seq
    ELSE <<Head(seq)>> \o InsertSorted(x, Tail(seq))

\* sort(names.begin(), names.end())
RECURSIVE sort(_)
sort(seq) ==
    IF seq = <<>> THEN <<>> ELSE InsertSorted(Head(seq), sort(Tail(seq)))

(***************************************************************************)
(* Helpers of the program.                                                 *)
(***************************************************************************)
\* dirname + "/" + name
Join(path, name) == [abs |-> path.abs, comps |-> Append(path.comps, name)]

\* the comparison done without regard to case (strcasecmp)
NameEqualsNoCase(name, target) ==
    LET lower(v) == IF v >= 65 /\ v <= 90 THEN v + 32 ELSE v
        low(w) == [i \in 1..Len(w) |-> lower(w[i])]
    IN  ~target.abs /\ Len(target.comps) = 1 /\ low(target.comps[1]) = low(name)

\* name == target, for a name typed as one token
NameEquals(name, target) == ~target.abs /\ target.comps = <<name>>

\* lstat(path): the file type and the permission bits of each class
lstat(path) ==
    LET r == Resolve(path, FALSE)
    IN  IF r.err # "OK" THEN [errno |-> r.err, type |-> "reg", u |-> {}, g |-> {}, o |-> {}]
        ELSE CASE r.kind = "dir" -> [errno |-> "OK", type |-> "dir", u |-> mode[r.dir], g |-> {}, o |-> {}]
               [] r.kind = "lnk" -> [errno |-> "OK", type |-> "lnk", u |-> RWX, g |-> RWX, o |-> RWX]
               [] r.kind = "reg" -> [errno |-> "OK", type |-> "reg", u |-> {"r", "w"}, g |-> {"r"}, o |-> {"r"}]

\* the ten characters "drwxr-xr--" of a mode
formatPermissions(st) ==
    LET bit(set, b) == IF b \in set THEN b ELSE "-"
        rwx(set) == << bit(set, "r"), bit(set, "w"), bit(set, "x") >>
    IN  << CASE st.type = "dir" -> "d" [] st.type = "lnk" -> "l" [] OTHER -> "-" >>
        \o rwx(st.u) \o rwx(st.g) \o rwx(st.o)

\* one row of the detailed listing, or one error line
showFileDetails(path, name) ==
    LET st == lstat(Join(path, name))
    IN  IF st.errno # "OK"
        THEN [stream |-> "cerr", line |-> <<"stat error", name, st.errno>>]
        ELSE [stream |-> "cout", line |-> <<"row", formatPermissions(st), name>>]

\* the names listFiles keeps of what readdir yielded: all but "." and ".."
KeepNames(order) ==
    LET kept == SelectSeq(order, LAMBDA e : ~(e.d_name = Dot \/ e.d_name = DotDot))
    IN  [i \in 1..Len(kept) |-> kept[i].d_name]

\* the lines listFiles prints for the sorted names
ListLines(path, names, detailed) ==
    [i \in 1..Len(names) |->
        IF detailed THEN showFileDetails(path, names[i])
        ELSE [stream |-> "cout", line |-> <<"name", names[i]>>]]

Lines(rows, stream) ==
    LET mine == SelectSeq(rows, LAMBDA r : r.stream = stream)
    IN  [i \in 1..Len(mine) |-> mine[i].line]

\* a closedir that is forgotten
closedir_leak(hs) == hs

\* closedir(dir): the most recently opened stream is the one closed
closedir(hs) == SubSeq(hs, 1, Len(hs) - 1)

\* fclose(f)
fclose(hs) == SubSeq(hs, 1, Len(hs) - 1)

\* a failed opendir that ends the callers' loops too
SkipDir_abort(frames) == [i \in 1..Len(frames) |-> [frames[i] EXCEPT !.rem = {}]]

\* searchFile when opendir fails: "return", and the caller's loop goes on
\* with the frames it had
SkipDir(frames) == frames

\* return 0
ExitStatus == 0

NoWalk == WalkFail("none")
NoLast == [op |-> "none", arg |-> EmptyPath, res |-> "none", at |-> NoWalk,
           files0 |-> {}, linked0 |-> {}, cwd0 |-> Root, seen |-> {}, unopened |-> {}]

\* the record of an operation as it starts
Asked(op, arg, res, at) ==
    [op |-> op, arg |-> arg, res |-> res, at |-> at,
     files0 |-> files, linked0 |-> linked, cwd0 |-> cwd, seen |-> {}, unopened |-> {}]

\* one token read from standard input; e: the read reached end of input
ReadToken(tok, e) ==
    /\ ~eof
    /\ tok = EmptyPath => e
    /\ eof' = e

Init ==
    /\ files = InitFiles
    /\ linked = Dirs
    /\ mode \in { [d \in Dirs |-> IF d = DirT THEN m ELSE RWX] : m \in PModes }
    /\ dtypeOK \in BOOLEAN
    /\ cwd = Root
    /\ cwdBuf = PathOf(Root)
    /\ pc = "AwaitingChoice"
    /\ eof = FALSE
    /\ handles = <<>>
    /\ stack = <<>>
    /\ out = <<>>
    /\ err = <<>>
    /\ last = NoLast
    /\ made = {}
    /\ nmut = 0
    /\ status = <<>>

(***************************************************************************)
(* main(): the menu loop.                                                  *)
(***************************************************************************)
\* a failed read that leaves the loop
main_badInput_break ==
    /\ pc = "AwaitingChoice"
    /\ \E e \in BOOLEAN : (eof => e) /\ eof' = e
    /\ out' = << <<"Invalid input">> >>
    /\ err' = <<>>
    /\ last' = Asked("badinput", EmptyPath, "none", NoWalk)
    /\ pc' = "Exit"
    /\ status' = <<ExitStatus>>
    /\ UNCHANGED <<files, linked, mode, dtypeOK, cwd, cwdBuf, handles, stack, made, nmut>>

\* cin >> choice fails: not a number, or end of input
main_badInput ==
    /\ pc = "AwaitingChoice"
    /\ \E e \in BOOLEAN : (eof => e) /\ eof' = e
    /\ out' = << <<"Invalid input">> >>
    /\ err' = <<>>
    /\ last' = Asked("badinput", EmptyPath, "none", NoWalk)
    /\ pc' = "Returned"
    /\ UNCHANGED <<files, linked, mode, dtypeOK, cwd, cwdBuf, handles, stack, made, nmut, status>>

\* a number that is none of 1..7
main_badChoice ==
    /\ pc = "AwaitingChoice"
    /\ ~eof
    /\ out' = << <<"Invalid choice">> >>
    /\ err' = <<>>
    /\ last' = Asked("badchoice", EmptyPath, "none", NoWalk)
    /\ pc' = "Returned"
    /\ UNCHANGED <<files, linked, mode, dtypeOK, cwd, cwdBuf, eof, handles, stack, made, nmut, status>>

\* case 7
main_exit ==
    /\ pc = "AwaitingChoice"
    /\ ~eof
    /\ out' = << <<"Goodbye!">> >>
    /\ err' = <<>>
    /\ last' = Asked("exit", EmptyPath, "none", NoWalk)
    /\ pc' = "Exit"
    /\ status' = <<ExitStatus>>
    /\ UNCHANGED <<files, linked, mode, dtypeOK, cwd, cwdBuf, eof, handles, stack, made, nmut>>

\* break / continue: back to the top of while (true), where getcwd fills cwd[]
main_loop ==
    /\ pc = "Returned"
    /\ cwdBuf' \in GetCwdInto(cwd, cwdBuf)
    /\ out' = <<>>
    /\ err' = <<>>
    /\ last' = NoLast
    /\ pc' = "AwaitingChoice"
    /\ UNCHANGED <<files, linked, mode, dtypeOK, cwd, eof, handles, stack, made, nmut, status>>

(***************************************************************************)
(* listFiles(string(cwd), detailed)                                        *)
(***************************************************************************)
listFiles_opendir ==
    /\ pc = "AwaitingChoice"
    /\ ~eof
    /\ \E e \in BOOLEAN : eof' = e
    /\ \E detailed \in BOOLEAN :
         LET o == opendir(cwdBuf)
             op == IF detailed THEN "detail" ELSE "list"
         IN  /\ last' = Asked(op, cwdBuf, o.errno, NoWalk)
             /\ IF o.errno # "OK"
                THEN /\ err' = << <<"opendir failed", cwdBuf, o.errno>> >>
                     /\ out' = <<>>
                     /\ pc' = "Returned"
                     /\ UNCHANGED handles
                ELSE /\ err' = <<>>
                     /\ out' = << <<IF detailed THEN "header" ELSE "Contents of", cwdBuf>> >>
                     /\ handles' = Append(handles, [type |-> "DIR", path |-> cwdBuf, dir |-> o.dir])
                     /\ pc' = "list_opened"
    /\ UNCHANGED <<files, linked, mode, dtypeOK, cwd, cwdBuf, stack, made, nmut, status>>

\* the readdir loop, closedir, sort and the printing loop
listFiles_print ==
    /\ pc = "list_opened"
    /\ LET h == handles[Len(handles)]
       IN  \E order \in ReaddirOrders(h.dir) :
             LET names == sort(KeepNames(order))
                 rows == ListLines(h.path, names, last.op = "detail")
             IN  /\ out' = out \o Lines(rows, "cout")
                 /\ err' = err \o Lines(rows, "cerr")
    /\ handles' = closedir(handles)
    /\ pc' = "Returned"
    /\ UNCHANGED <<files, linked, mode, dtypeOK, cwd, cwdBuf, eof, stack, last, made, nmut, status>>

(***************************************************************************)
(* createFile(name)                                                        *)
(***************************************************************************)
createFile_fopen ==
    /\ pc = "AwaitingChoice"
    /\ \E tok \in Tokens, e \in BOOLEAN :
         /\ ReadToken(tok, e)
         /\ LET f == fopen_wx(tok)
            IN  /\ f.errno = "OK" => nmut < MaxMutations
                /\ nmut' = IF f.errno = "OK" THEN nmut + 1 ELSE nmut
                /\ last' = Asked("create", tok, f.errno, f.at)
                /\ files' = f.files
                /\ err' = IF f.errno \in {"OK", "EEXIST"} THEN <<>>
                          ELSE << <<"fopen failed", f.errno>> >>
                /\ out' = IF f.errno = "EEXIST" THEN << <<"File already exists", tok>> >>
                          ELSE <<>>
                /\ IF f.errno = "OK"
                   THEN /\ handles' = Append(handles, [type |-> "FILE", path |-> tok, dir |-> f.at.dir])
                        /\ made' = made \cup { <<f.at.dir, f.at.name>> }
                        /\ pc' = "create_opened"
                   ELSE /\ pc' = "Returned"
                        /\ UNCHANGED <<handles, made, nmut>>
    /\ UNCHANGED <<linked, mode, dtypeOK, cwd, cwdBuf, stack, status>>

\* fclose(f) and the confirmation
createFile_fclose ==
    /\ pc = "create_opened"
    /\ handles' = fclose(handles)
    /\ out' = Append(out, <<"File created", last.arg>>)
    /\ pc' = "Returned"
    /\ UNCHANGED <<files, linked, mode, dtypeOK, cwd, cwdBuf, eof, stack, err, last, made, nmut, status>>

(***************************************************************************)
(* deleteFile(name)                                                        *)
(***************************************************************************)
deleteFile ==
    /\ pc = "AwaitingChoice"
    /\ \E tok \in Tokens, e \in BOOLEAN :
         /\ ReadToken(tok, e)
         /\ LET r == remove(tok)
            IN  /\ r.errno = "OK" => nmut < MaxMutations
                /\ nmut' = IF r.errno = "OK" THEN nmut + 1 ELSE nmut
                /\ last' = Asked("delete", tok, r.errno, r.at)
                /\ files' = r.files
                /\ linked' = r.linked
                /\ made' = { m \in made : \E f \in r.files : m = <<f.dir, f.name>> }
                /\ out' = IF r.errno = "OK" THEN << <<"Deleted", tok>> >> ELSE <<>>
                /\ err' = IF r.errno = "OK" THEN <<>> ELSE << <<"remove failed", r.errno>> >>
    /\ pc' = "Returned"
    /\ UNCHANGED <<mode, dtypeOK, cwd, cwdBuf, handles, stack, status>>

(***************************************************************************)
(* changeDirectory(path)                                                   *)
(***************************************************************************)
changeDirectory ==
    /\ pc = "AwaitingChoice"
    /\ \E tok \in Tokens, e \in BOOLEAN :
         /\ ReadToken(tok, e)
         /\ LET c == chdir(tok)
            IN  /\ last' = Asked("chdir", tok, c.errno, NoWalk)
                /\ cwd' = c.cwd
                /\ IF c.errno = "OK"
                   THEN /\ \E buf \in GetCwdInto(c.cwd, EmptyPath) :
                             out' = << <<"Changed directory to", buf>> >>
                        /\ err' = <<>>
                   ELSE /\ out' = <<>>
                        /\ err' = << <<"chdir failed", c.errno>> >>
    /\ pc' = "Returned"
    /\ UNCHANGED <<files, linked, mode, dtypeOK, cwdBuf, handles, stack, made, nmut, status>>

(***************************************************************************)
(* searchFile(string(cwd), name)                                           *)
(***************************************************************************)
\* the call from main: opendir(dirname), or a silent return
searchFile_call ==
    /\ pc = "AwaitingChoice"
    /\ \E tok \in Targets, e \in BOOLEAN :
         /\ ReadToken(tok, e)
         /\ LET o == opendir(cwdBuf)
            IN  /\ out' = << <<"Searching">> >>
                /\ IF o.errno # "OK"
                   THEN /\ last' = [Asked("search", tok, o.errno, NoWalk)
                                       EXCEPT !.unopened = {cwdBuf}]
                        /\ pc' = "Returned"
                        /\ UNCHANGED <<handles, stack>>
                   ELSE /\ last' = Asked("search", tok, o.errno, NoWalk)
                        /\ handles' = Append(handles, [type |-> "DIR", path |-> cwdBuf, dir |-> o.dir])
                        /\ stack' = << [path |-> cwdBuf, dir |-> o.dir, rem |-> readdir(o.dir)] >>
                        /\ pc' = "search"
    /\ err' = <<>>
    /\ UNCHANGED <<files, linked, mode, dtypeOK, cwd, cwdBuf, made, nmut, status>>

\* one turn of the while loop: readdir yields an entry
searchFile_entry ==
    /\ pc = "search"
    /\ LET top == stack[Len(stack)]
           target == last.arg
       IN  \E ent \in NextEntries(top.rem) :
             LET name == ent.d_name
                 full == Join(top.path, name)
                 rest == [stack EXCEPT ![Len(stack)].rem = top.rem \ {ent}]
             IN  IF name = Dot \/ name = DotDot
                 THEN /\ stack' = rest
                      /\ UNCHANGED <<handles, out, last>>
                 ELSE IF ent.d_type = "DT_DIR"
                 THEN LET o == opendir(full)
                      IN  IF o.errno # "OK"
                          THEN /\ stack' = SkipDir(rest)
                               /\ last' = [last EXCEPT !.seen = @ \cup {full},
                                                       !.unopened = @ \cup {full}]
                               /\ UNCHANGED <<handles, out>>
                          ELSE /\ stack' = Append(rest, [path |-> full, dir |-> o.dir,
                                                         rem |-> readdir(o.dir)])
                               /\ handles' = Append(handles, [type |-> "DIR", path |-> full, dir |-> o.dir])
                               /\ last' = [last EXCEPT !.seen = @ \cup {full}]
                               /\ UNCHANGED out
                 ELSE /\ stack' = rest
                      /\ last' = [last EXCEPT !.seen = @ \cup {full}]
                      /\ out' = IF NameEquals(name, target)
                                THEN Append(out, <<"Found", full>>) ELSE out
                      /\ UNCHANGED handles
    /\ UNCHANGED <<files, linked, mode, dtypeOK, cwd, cwdBuf, pc, eof, err, made, nmut, status>>

\* readdir yields nullptr: closedir(dir) and return to the caller
searchFile_return ==
    /\ pc = "search"
    /\ stack[Len(stack)].rem = {}
    /\ handles' = closedir(handles)
    /\ stack' = SubSeq(stack, 1, Len(stack) - 1)
    /\ pc' = IF Len(stack) = 1 THEN "Returned" ELSE "search"
    /\ UNCHANGED <<files, linked, mode, dtypeOK, cwd, cwdBuf, eof, out, err, last, made, nmut, status>>

Next ==
    \/ main_badInput
    \/ main_badChoice
    \/ main_exit
    \/ main_loop
    \/ listFiles_opendir
    \/ listFiles_print
    \/ createFile_fopen
    \/ createFile_fclose
    \/ deleteFile
    \/ changeDirectory
    \/ searchFile_call
    \/ searchFile_entry
    \/ searchFile_return

Spec == Init /\ [][Next]_vars

(***************************************************************************)
(* Vocabulary of the properties.                                           *)
(***************************************************************************)
\* byte-wise lexicographic order, stated without recursion: a and b agree
\* before position k, where a ends or has the smaller byte
LexLess(a, b) ==
    \E k \in 1..(Len(a) + 1) :
        /\ k <= Len(b)
        /\ \A i \in 1..(k - 1) : a[i] = b[i]
        /\ (k = Len(a) + 1 \/ a[k] < b[k])

\* the names of the immediate children of directory d, in a given filesystem
ChildNamesIn(fs, lk, d) ==
    { DirName[k] : k \in { c \in lk : c # Root /\ DirParent[c] = d } }
    \cup { f.name : f \in { g \in fs : g.dir = d } }
ChildNames(d) == ChildNamesIn(files, linked, d)

\* the operation `op` has returned to main
Done(op) == pc = "Returned" /\ last.op = op

\* the names a plain listing printed, in order (after the "Contents of" line)
PrintedNames == [i \in 1..(Len(out) - 1) |-> out[i + 1][2]]

\* C1: a plain listing of a directory that could be opened prints exactly the
\* names of its children, without "." and "..", each once, in ascending
\* byte-wise order, whatever order readdir yielded them in.
C1_ListSorted ==
    (Done("list") /\ last.res = "OK") =>
        LET d == opendir(last.arg).dir
            names == PrintedNames
        IN  /\ out[1] = <<"Contents of", last.arg>>
            /\ \A i \in 1..Len(out) : i > 1 => out[i][1] = "name"
            /\ { names[i] : i \in 1..Len(names) } = ChildNames(d)
            /\ Len(names) = Cardinality(ChildNames(d))
            /\ \A i, j \in 1..Len(names) : i < j => LexLess(names[i], names[j])
            /\ err = <<>>

\* a plain listing of /s while it holds at least three children, one of them
\* with bytes above 127
C1_Witness ==
    /\ Done("list")
    /\ last.res = "OK"
    /\ Len(out) >= 4
    /\ \E i, j \in 2..Len(out) : out[i][2] = N_e /\ out[j][2] = N_t

\* C2: createFile on a name that does not exist, in a writable directory,
\* succeeds and leaves an empty regular file; createFile on a file that an
\* earlier createFile made and that was not deleted since reports "File
\* already exists" and nothing on cerr.
C2_CreateThenExists ==
    (last.op = "create") =>
        /\ (/\ last.at.err = "ENOENT"
            /\ last.at.name # <<>>
            /\ last.at.dir \in last.linked0
            /\ "w" \in mode[last.at.dir])
           => /\ last.res = "OK"
              /\ [dir |-> last.at.dir, name |-> last.at.name,
                  kind |-> "reg", size |-> 0] \in files
              /\ err = <<>>
              /\ pc = "Returned" => out = << <<"File created", last.arg>> >>
        /\ (/\ last.at.kind = "reg"
            /\ <<last.at.dir, last.at.name>> \in made)
           => /\ last.res = "EEXIST"
              /\ out = << <<"File already exists", last.arg>> >>
              /\ err = <<>>
              /\ pc = "Returned"
        /\ (last.res = "OK" /\ pc = "Returned") => <<last.at.dir, last.at.name>> \in made

\* a second createFile of a file the program made itself
C2_Witness ==
    /\ Done("create")
    /\ last.res = "EEXIST"
    /\ <<last.at.dir, last.at.name>> \in made
    /\ last.at.kind = "reg"

\* C3: createFile on a name that already exists (a file, a directory or a
\* symbolic link) changes nothing: not the entries, not the directories, not
\* the working directory.
C3_CreateNeverOverwrites ==
    (last.op = "create" /\ last.at.err = "OK") =>
        /\ files = last.files0
        /\ linked = last.linked0
        /\ cwd = last.cwd0
        /\ last.res = "EEXIST"

\* createFile on an existing file that has contents
C3_Witness ==
    /\ Done("create")
    /\ last.at.kind = "reg"
    /\ \E f \in files : f.dir = last.at.dir /\ f.name = last.at.name /\ f.size > 0

\* the names a plain listing of directory d prints, for one readdir order
ListingOf(order) == sort(KeepNames(order))

\* C4: after deleteFile reports success on a file, no listing of the file's
\* parent directory contains its name, and every listing still contains every
\* other child the directory had.
C4_DeleteThenListed ==
    (Done("delete") /\ last.res = "OK" /\ last.at.kind \in {"reg", "lnk"}) =>
        LET d == last.at.dir
            before == ChildNamesIn(last.files0, last.linked0, d)
        IN  /\ out = << <<"Deleted", last.arg>> >>
            /\ last.at.name \in before
            /\ \A order \in ReaddirOrders(d) :
                 LET l == ListingOf(order)
                 IN  { l[i] : i \in 1..Len(l) } = before \ {last.at.name}

\* a file deleted from a directory that keeps other children
C4_Witness ==
    /\ Done("delete")
    /\ last.res = "OK"
    /\ last.at.kind = "reg"
    /\ ChildNames(last.at.dir) # {}

\* the directory d had no entry but "." and ".." in the given filesystem
EmptyIn(fs, lk, d) == ChildNamesIn(fs, lk, d) = {}

\* C5 as stated: deleteFile on a name that denotes a directory, empty or not,
\* reports a failure and the directory still exists.
C5_DeleteRefusesDirectories ==
    (Done("delete") /\ last.at.kind = "dir") =>
        /\ last.res # "OK"
        /\ last.at.dir \in linked

\* C5 as amended: deleteFile is not recursive.  On a directory that is not
\* empty it reports a failure and removes nothing; a success on a directory
\* means the directory was empty, and removes that directory only; and an
\* empty directory, named otherwise than by "/", "." or "..", in a writable
\* parent, is removed.
C5_DeleteNotRecursive ==
    (Done("delete") /\ last.at.kind = "dir") =>
        LET d == last.at.dir
            empty == EmptyIn(last.files0, last.linked0, d)
        IN  /\ ~empty => /\ last.res # "OK"
                         /\ files = last.files0
                         /\ linked = last.linked0
                         /\ err = << <<"remove failed", last.res>> >>
            /\ last.res = "OK" => /\ empty
                                  /\ files = last.files0
                                  /\ linked = last.linked0 \ {d}
            /\ (/\ empty
                /\ d \in last.linked0
                /\ d # Root
                /\ last.at.name \notin {Dot, DotDot}
                /\ "w" \in mode[DirParent[d]])
               => /\ last.res = "OK"
                  /\ d \notin linked
                  /\ out = << <<"Deleted", last.arg>> >>

\* deleteFile refused a directory that has entries
C5_Witness ==
    /\ Done("delete")
    /\ last.at.kind = "dir"
    /\ ~EmptyIn(last.files0, last.linked0, last.at.dir)
    /\ last.at.dir # Root
    /\ last.res = "ENOTEMPTY"

\* the components of the absolute path a path denotes from directory `from`:
\* "." dropped, ".." dropping the component before it, the symbolic link /l
\* replaced by what it points to
ExpandLink(comps) ==
    IF comps = <<N_l>> /\ \E f \in files : f.dir = Root /\ f.name = N_l /\ f.kind = "lnk"
    THEN LinkTarget.comps ELSE comps
RECURSIVE Canon(_, _)
Canon(acc, comps) ==
    IF comps = <<>> THEN acc
    ELSE LET c == Head(comps)
         IN  Canon(IF c = Dot THEN acc
                   ELSE IF c = DotDot
                        THEN (IF acc = <<>> THEN acc ELSE SubSeq(acc, 1, Len(acc) - 1))
                   ELSE ExpandLink(Append(acc, c)),
                   Tail(comps))
AbsoluteForm(from, path) ==
    Canon(IF path.abs THEN <<>> ELSE PathOf(from).comps, path.comps)

\* the directories above d, and d
RECURSIVE UpTo(_)
UpTo(d) == IF d = Root THEN {Root} ELSE {d} \cup UpTo(DirParent[d])

\* d is a directory of the tree that may be entered
Accessible(d) == d \in linked /\ \A k \in UpTo(d) : "x" \in mode[k]

\* C6: after changeDirectory(P) the working directory is the directory whose
\* absolute path is the resolved form of P, when that is an accessible
\* directory; otherwise it is the working directory from before the call and
\* a failure is reported.
C6_ChdirResolvesOrKeeps ==
    (Done("chdir")) =>
        LET form == AbsoluteForm(last.cwd0, last.arg)
            valid == /\ last.arg # EmptyPath
                     /\ \E d \in Dirs : Accessible(d) /\ PathOf(d).comps = form
        IN  IF valid
            THEN /\ last.res = "OK"
                 /\ cwd \in linked
                 /\ PathOf(cwd).comps = form
                 /\ \E buf \in GetCwdInto(cwd, EmptyPath) :
                      out = << <<"Changed directory to", buf>> >>
                 /\ err = <<>>
            ELSE /\ last.res # "OK"
                 /\ cwd = last.cwd0
                 /\ err = << <<"chdir failed", last.res>> >>
                 /\ out = <<>>

\* a relative path through the symbolic link, resolved to /s/t
C6_Witness ==
    /\ Done("chdir")
    /\ last.arg = Rel(<<N_l, N_t>>)
    /\ last.res = "OK"
    /\ PathOf(cwd) = Abs(<<N_s, N_t>>)

\* the directories of the tree under directory r
RECURSIVE Under(_, _)
Under(W, n) ==
    IF n = 0 THEN W
    ELSE Under(W \cup { k \in linked : DirParent[k] \in W }, n - 1)
TreeDirs(r) == Under({r}, Cardinality(Dirs))

\* the directories searchFile gets into from r: those reached through
\* entries typed "directory" that opendir can open
RECURSIVE Into(_, _)
Into(W, n) ==
    IF n = 0 THEN W
    ELSE Into(W \cup { k \in linked : /\ DirParent[k] \in W
                                      /\ dtypeOK
                                      /\ "x" \in mode[DirParent[k]]
                                      /\ "r" \in mode[k] }, n - 1)
WalkedDirs(r) == Into({r}, Cardinality(Dirs))

\* the full paths of the entries of the directories D whose type hint is not
\* "directory" and whose name is the target
MatchesIn(D, target) ==
    { Join(PathOf(f.dir), f.name) :
        f \in { g \in files : g.dir \in D /\ target = Rel(<<g.name>>) } }
    \cup
    { Join(PathOf(DirParent[k]), DirName[k]) :
        k \in { c \in linked \ {Root} : /\ DirParent[c] \in D
                                        /\ ~dtypeOK
                                        /\ target = Rel(<<DirName[c]>>) } }

\* the paths searchFile printed, in order (after the "Searching" line)
Found == [i \in 1..(Len(out) - 1) |-> out[i + 1][2]]

\* the lines of `found` are the paths `expected`, each on one line
PrintsExactly(found, expected) ==
    /\ { found[i] : i \in 1..Len(found) } = expected
    /\ Len(found) = Cardinality(expected)

\* C7 as stated: a search prints exactly the entries of the whole tree under
\* the root that are not typed "directory" and bear the target name.  It is
\* stated here for a root that could be opened, on a filesystem whose
\* readdir reports every entry's type.
C7_SearchWholeTree ==
    (Done("search") /\ last.res = "OK" /\ dtypeOK) =>
        PrintsExactly(Found, MatchesIn(TreeDirs(opendir(cwdBuf).dir), last.arg))

\* C7 as amended: a search prints exactly the entries that are not typed
\* "directory" and bear the target name (compared byte for byte) in the
\* directories it gets into: the root and every directory reached from it
\* through entries typed "directory" that can be opened.  Each is printed on
\* one "Found" line, and no other line is printed.
C7_SearchWalkedTree ==
    (Done("search") /\ last.res = "OK") =>
        /\ PrintsExactly(Found, MatchesIn(WalkedDirs(opendir(cwdBuf).dir), last.arg))
        /\ \A i \in 1..Len(out) : i > 1 => out[i][1] = "Found"
        /\ \A i \in 1..Len(Found) : Found[i].abs

\* a search from / that found the target at two depths
C7_Witness ==
    /\ Done("search")
    /\ \E i, j \in 2..Len(out) :
         out[i][2] = Abs(<<N_a>>) /\ out[j][2] = Abs(<<N_s, N_t, N_a>>)

\* p is a proper prefix of q, or q itself
IsPrefix(p, q) == Len(p) <= Len(q) /\ SubSeq(q, 1, Len(p)) = p

\* C8: in a search, a directory that could not be opened puts no match and
\* no error on the output, and every other entry of the directory that holds
\* it is still read, its match reported if it is one.
C8_UnopenedSkipped ==
    Done("search") =>
        /\ err = <<>>
        /\ \A u \in last.unopened :
             /\ \A i \in 1..Len(Found) : ~IsPrefix(u.comps, Found[i].comps)
             /\ last.res = "OK" =>
                  \E d \in Dirs :
                    /\ d \in linked
                    /\ PathOf(d).comps = SubSeq(u.comps, 1, Len(u.comps) - 1)
                    /\ \A nm \in ChildNames(d) : Join(PathOf(d), nm) \in last.seen
                    /\ \A f \in FilesIn(d) :
                         last.arg = Rel(<<f.name>>) =>
                           Cardinality({ i \in 1..Len(Found) :
                                           Found[i] = Join(PathOf(d), f.name) }) = 1
        /\ last.res # "OK" => out = << <<"Searching">> >> /\ last.unopened = {cwdBuf}

\* /s/t could not be opened, and a match beside it in /s was reported
C8_Witness ==
    /\ Done("search")
    /\ Abs(<<N_s, N_t>>) \in last.unopened
    /\ \E i \in 1..Len(Found) : Found[i] = Abs(<<N_s, N_a>>)

\* C9: main returns only from choice 7, with status 0; every operation that
\* failed, every unreadable choice and every choice outside 1..7 is followed
\* by the top of the loop, AwaitingChoice.
C9_MenuLoopResumes ==
    /\ pc = "Exit" => last.op = "exit" /\ status = <<0>>
    /\ pc # "Exit" => status = <<>>
    /\ last.op \in {"badinput", "badchoice"} => pc = "Returned"
    /\ (last.op \in {"list", "detail", "create", "delete", "chdir", "search"}
          /\ last.res # "OK") => pc = "Returned"
    /\ pc = "Returned" => ENABLED main_loop
    /\ pc \in {"AwaitingChoice", "list_opened", "create_opened", "search", "Returned", "Exit"}

\* a listing that failed, back in the loop
C9_Witness ==
    /\ Done("list")
    /\ last.res # "OK"
    /\ err # <<>>
    /\ ENABLED main_loop

\* C10: no handle is open while the menu waits, after an operation returned
\* or at exit; listFiles and createFile hold one handle between opening and
\* closing; during a search the open streams are those of the directories on
\* the recursion path, outermost first.
C10_HandlesReleased ==
    /\ pc \in {"AwaitingChoice", "Returned", "Exit"} => handles = <<>> /\ stack = <<>>
    /\ pc = "list_opened" => Len(handles) = 1 /\ handles[1].type = "DIR"
    /\ pc = "create_opened" => Len(handles) = 1 /\ handles[1].type = "FILE"
    /\ pc = "search" =>
         /\ Len(stack) >= 1
         /\ Len(handles) = Len(stack)
         /\ \A i \in 1..Len(stack) :
              handles[i] = [type |-> "DIR", path |-> stack[i].path, dir |-> stack[i].dir]
         /\ stack[1].path = cwdBuf
         /\ \A i \in 1..(Len(stack) - 1) :
              /\ DirParent[stack[i + 1].dir] = stack[i].dir
              /\ stack[i + 1].path = Join(stack[i].path, DirName[stack[i + 1].dir])

\* a search three directories deep
C10_Witness ==
    /\ pc = "search"
    /\ Len(handles) = 3

====
